---- MODULE Spec2Model ----
(***************************************************************************)
(* Reconcilers of cluster-api-provider-azure: the public IP service, the   *)
(* VM extension service and the scale-set (VMSS) extension service.        *)
(*                                                                         *)
(* One Service object is modelled at a time (svc); the provider (Azure)    *)
(* holds the only persistent state: the provisioning state of every        *)
(* extension (ext) and the public IP (ip).  A Reconcile pass of an         *)
(* extension service is a loop of provider calls, so it is modelled call   *)
(* by call and the provider may move between two calls.  Every provider    *)
(* call of the running (or last) pass is recorded in calls together with   *)
(* the provider's answer; every SetCondition of the pass in condLog.       *)
(***************************************************************************)
EXTENDS Naturals, Sequences, FiniteSets

VARIABLES
    svc,      \* which Service is under test: "publicips", "vmextensions", "vmssextensions"
    specs,    \* Scope.VMExtensionSpecs() / Scope.VMSSExtensionSpecs(): a sequence of specs
    ext,      \* provider: provisioning state of each extension
    ipName,   \* Scope.Network().APIServerIP.Name, a sequence of characters
    ip,       \* provider: the public IP, <<>> when absent, else <<parameters>>
    cond,     \* the scope's BootstrapSucceededCondition
    pc,       \* position of the pass: "idle", "get", "create"
    idx,      \* loop index into specs
    op,       \* the operation running or last run: "none", "Reconcile", "Delete"
    calls,    \* provider calls of the running (or last) operation, with their answers
    condLog,  \* SetCondition calls of the running (or last) operation
    result    \* "none", "running", "nil" or the error returned

vars == <<svc, specs, ext, ipName, ip, cond, pc, idx, op, calls, condLog, result>>

\* ------------------------------------------------------------------ bounds

NumExt == 2
MaxSpecs == 2
MaxNameLen == 2

\* ------------------------------------------------------- data of the model

ExtNames == {<<"ext", i>> : i \in 1..NumExt}

\* compute.ProvisioningState values the provider can report, "absent" for a
\* resource the provider does not hold; "updating" stands for the values the
\* switches do not name.
ExtStates == {"absent", "creating", "succeeded", "failed", "updating"}

\* The desired spec of extension n (Name, Publisher, Version), supplied by the caller.
SpecOf(n) ==
    [Name |-> n,
     Publisher |-> <<"publisher", n[2]>>,
     Version |-> <<"version", n[2]>>,
     ProtectedSettings |-> <<"protected", n[2]>>]

Range(s) == {s[i] : i \in 1..Len(s)}

\* The spec lists a scope can return: extensions are identified by name, so
\* the names of a list are distinct.
SpecLists ==
    {s \in UNION {[1..k -> ExtNames] : k \in 0..MaxSpecs} :
        \A i, j \in 1..Len(s) : s[i] = s[j] => i = j}

Alphabet == {"A", "b", "-"}

IPNames == UNION {[1..k -> Alphabet] : k \in 1..MaxNameLen}

\* strings.ToLower, character by character
LowerChar(c) == IF c = "A" THEN "a" ELSE c

ToLower(s) == [i \in 1..Len(s) |-> LowerChar(s[i])]

\* PublicIPAddress with the DNS label taken from the name as it is.
PublicIPAddress_RawLabel(name) ==
    [Sku |-> "Standard",
     Name |-> name,
     Location |-> "location",
     PublicIPAddressVersion |-> "IPv4",
     PublicIPAllocationMethod |-> "Static",
     DomainNameLabel |-> name,
     Fqdn |-> "dnsName"]

\* the network.PublicIPAddress that Reconcile sends for the IP named name
PublicIPAddress(name) ==
    [Sku |-> "Standard",
     Name |-> name,
     Location |-> "location",
     PublicIPAddressVersion |-> "IPv4",
     PublicIPAllocationMethod |-> "Static",
     DomainNameLabel |-> ToLower(name),
     Fqdn |-> "dnsName"]

\* errors.New / errors.Wrap messages
ErrStillProvisioning == "extension still provisioning"
ErrStateFailed == "extension state failed"
ErrCreateVMExtension == "failed to create VM extension"
ErrGetVMSSExtension == "failed to get vm extension"
ErrCreatePublicIP == "cannot create public IP"
ErrDeletePublicIP == "failed to delete public IP"

IsError(r) == r \notin {"none", "running", "nil"}

\* conditions: <<status, reason, severity>>
CondUnset == <<"unset", "", "">>
CondTrue == <<"true", "", "">>
CondInProgress == <<"false", "BootstrapInProgress", "Info">>
CondFailed == <<"false", "BootstrapFailed", "Error">>

\* a provider call and the provider's answer to it
Call(o, n, p, a) == [op |-> o, name |-> n, params |-> p, ans |-> a]

Mutating(c) == c.op \in {"CreateOrUpdate", "Delete"}

ExtServices == {"vmextensions", "vmssextensions"}

\* ------------------------------------------------------------------- Init

Init ==
    /\ svc \in {"publicips"} \cup ExtServices
    /\ specs \in (IF svc \in ExtServices
                    THEN {[i \in 1..Len(s) |-> SpecOf(s[i])] : s \in SpecLists}
                    ELSE {<<>>})
    /\ ext \in (IF svc \in ExtServices
                    THEN [ExtNames -> ExtStates]
                    ELSE {[n \in ExtNames |-> "absent"]})
    /\ ipName \in (IF svc = "publicips" THEN IPNames ELSE {<<"A">>})
    /\ ip \in (IF svc = "publicips" THEN {<<>>, <<PublicIPAddress(ipName)>>} ELSE {<<>>})
    /\ cond = CondUnset
    /\ pc = "idle"
    /\ idx = 0
    /\ op = "none"
    /\ calls = <<>>
    /\ condLog = <<>>
    /\ result = "none"

\* ------------------------------------------------- extension Reconcile

\* The pass returns r.
Return(r) ==
    /\ pc' = "idle"
    /\ result' = r
    /\ idx' = idx

\* The loop goes on to the next spec.
Continue ==
    /\ pc' = "get"
    /\ idx' = idx + 1
    /\ result' = result

SetCondition(c) ==
    /\ cond' = c
    /\ condLog' = Append(condLog, c)

NoCondition ==
    /\ cond' = cond
    /\ condLog' = condLog

\* The controller invokes Reconcile of an extension service.
ReconcileStart ==
    /\ svc \in ExtServices
    /\ pc = "idle"
    /\ pc' = "get"
    /\ idx' = 1
    /\ op' = "Reconcile"
    /\ calls' = <<>>
    /\ condLog' = <<>>
    /\ result' = "running"
    /\ UNCHANGED <<svc, specs, ext, ipName, ip, cond>>

\* VMSwitch with the creating case falling through to the next spec.
VMSwitch_CreatingContinues(ans) ==
    /\ NoCondition
    /\ CASE ans = "succeeded" -> Continue
         [] ans = "failed" -> Return(ErrStateFailed)
         [] ans = "notfound" -> /\ pc' = "create"
                                /\ idx' = idx
                                /\ result' = result
         [] OTHER -> Continue

\* VMSwitch with the not-found case missing: nothing is created.
VMSwitch_NotFoundContinues(ans) ==
    /\ NoCondition
    /\ CASE ans = "creating" -> Return(ErrStillProvisioning)
         [] ans = "succeeded" -> Continue
         [] ans = "failed" -> Return(ErrStateFailed)
         [] OTHER -> Continue

\* VMSwitch with the succeeded case returning like the creating case.
VMSwitch_SucceededReturns(ans) ==
    /\ NoCondition
    /\ CASE ans = "creating" -> Return(ErrStillProvisioning)
         [] ans = "succeeded" -> Return(ErrStillProvisioning)
         [] ans = "failed" -> Return(ErrStateFailed)
         [] ans = "notfound" -> /\ pc' = "create"
                                /\ idx' = idx
                                /\ result' = result
         [] OTHER -> Continue

\* VMSwitch with the failed case creating the extension again.
VMSwitch_FailedRecreates(ans) ==
    /\ NoCondition
    /\ CASE ans = "creating" -> Return(ErrStillProvisioning)
         [] ans = "succeeded" -> Continue
         [] ans \in {"failed", "notfound"} -> /\ pc' = "create"
                                              /\ idx' = idx
                                              /\ result' = result
         [] OTHER -> Continue

\* VMSwitch with the states it does not name taken as an error.
VMSwitch_UnnamedIsError(ans) ==
    /\ NoCondition
    /\ CASE ans = "creating" -> Return(ErrStillProvisioning)
         [] ans = "succeeded" -> Continue
         [] ans = "failed" -> Return(ErrStateFailed)
         [] ans = "notfound" -> /\ pc' = "create"
                                /\ idx' = idx
                                /\ result' = result
         [] ans = "error" -> Continue
         [] OTHER -> Return(ErrStateFailed)

\* vmextensions: the switch on the answer of Get.
VMSwitch(ans) ==
    /\ NoCondition
    /\ CASE ans = "creating" -> Return(ErrStillProvisioning)
         [] ans = "succeeded" -> Continue
         [] ans = "failed" -> Return(ErrStateFailed)
         [] ans = "notfound" -> /\ pc' = "create"
                                /\ idx' = idx
                                /\ result' = result
         [] OTHER -> Continue

\* VMSSSwitch with the failed case reporting the in-progress reason.
VMSSSwitch_FailedInProgress(ans) ==
    CASE ans = "succeeded" -> SetCondition(CondTrue) /\ Continue
      [] ans = "creating" -> SetCondition(CondInProgress) /\ Return(ErrStillProvisioning)
      [] ans = "failed" -> SetCondition(CondInProgress) /\ Return(ErrStateFailed)
      [] ans = "error" -> NoCondition /\ Return(ErrGetVMSSExtension)
      [] OTHER -> NoCondition /\ Continue

\* VMSSSwitch with the succeeded case setting no condition.
VMSSSwitch_SucceededSilent(ans) ==
    CASE ans = "creating" -> SetCondition(CondInProgress) /\ Return(ErrStillProvisioning)
      [] ans = "failed" -> SetCondition(CondFailed) /\ Return(ErrStateFailed)
      [] ans = "error" -> NoCondition /\ Return(ErrGetVMSSExtension)
      [] OTHER -> NoCondition /\ Continue

\* VMSSSwitch remembering the condition an earlier pass left: an extension
\* last seen in progress is reported as still provisioning once more.
VMSSSwitch_RemembersInProgress(ans) ==
    CASE ans = "succeeded" /\ cond = CondInProgress /\ condLog = <<>> ->
             SetCondition(CondTrue) /\ Return(ErrStillProvisioning)
      [] ans = "succeeded" -> SetCondition(CondTrue) /\ Continue
      [] ans = "creating" -> SetCondition(CondInProgress) /\ Return(ErrStillProvisioning)
      [] ans = "failed" -> SetCondition(CondFailed) /\ Return(ErrStateFailed)
      [] ans = "error" -> NoCondition /\ Return(ErrGetVMSSExtension)
      [] OTHER -> NoCondition /\ Continue

\* VMSSSwitch with the creating case setting no condition.
VMSSSwitch_CreatingSilent(ans) ==
    CASE ans = "succeeded" -> SetCondition(CondTrue) /\ Continue
      [] ans = "creating" -> NoCondition /\ Return(ErrStillProvisioning)
      [] ans = "failed" -> SetCondition(CondFailed) /\ Return(ErrStateFailed)
      [] ans = "error" -> NoCondition /\ Return(ErrGetVMSSExtension)
      [] OTHER -> NoCondition /\ Continue

\* vmssextensions: the if / switch on the answer of Get.
VMSSSwitch(ans) ==
    CASE ans = "succeeded" -> SetCondition(CondTrue) /\ Continue
      [] ans = "creating" -> SetCondition(CondInProgress) /\ Return(ErrStillProvisioning)
      [] ans = "failed" -> SetCondition(CondFailed) /\ Return(ErrStateFailed)
      [] ans = "error" -> NoCondition /\ Return(ErrGetVMSSExtension)
      [] OTHER -> NoCondition /\ Continue

\* What the provider answers to a Get of extension n when the call goes through.
GetAnswer(n) == IF ext[n] = "absent" THEN "notfound" ELSE ext[n]

\* One iteration of the loop: Get of specs[idx], answered ans, then the switch.
ReconcileGet(ans) ==
    /\ svc \in ExtServices
    /\ pc = "get"
    /\ idx <= Len(specs)
    /\ calls' = Append(calls, Call("Get", specs[idx].Name, <<>>, ans))
    /\ IF svc = "vmextensions" THEN VMSwitch(ans) ELSE VMSSSwitch(ans)
    /\ UNCHANGED <<svc, specs, ext, ipName, ip, op>>

\* Get goes through: the provider reports the state it holds.
ReconcileGetOK ==
    /\ pc = "get" /\ idx <= Len(specs)
    /\ ReconcileGet(GetAnswer(specs[idx].Name))

\* Get fails with a provider error other than not-found.
ReconcileGetError ==
    /\ pc = "get" /\ idx <= Len(specs)
    /\ ReconcileGet("error")

\* VirtualMachineExtension with the publisher sent as the handler version.
VirtualMachineExtension_WrongVersion(s) ==
    [Publisher |-> s.Publisher,
     Type |-> s.Name,
     TypeHandlerVersion |-> s.Publisher,
     Settings |-> <<>>,
     ProtectedSettings |-> s.ProtectedSettings,
     Location |-> "location"]

\* The compute.VirtualMachineExtension sent for spec s.
VirtualMachineExtension(s) ==
    [Publisher |-> s.Publisher,
     Type |-> s.Name,
     TypeHandlerVersion |-> s.Version,
     Settings |-> <<>>,
     ProtectedSettings |-> s.ProtectedSettings,
     Location |-> "location"]

\* vmextensions: CreateOrUpdate of specs[idx] after a not-found Get.
ReconcileCreate(ans) ==
    /\ svc = "vmextensions"
    /\ pc = "create"
    /\ calls' = Append(calls,
                       Call("CreateOrUpdate", specs[idx].Name,
                            <<VirtualMachineExtension(specs[idx])>>, ans))
    /\ NoCondition
    /\ IF ans = "ok" THEN Continue ELSE Return(ErrCreateVMExtension)
    /\ UNCHANGED <<svc, specs, ipName, ip, op>>

\* CreateOrUpdate goes through: the provider holds the extension, still being
\* provisioned or already provisioned.
ReconcileCreateOK ==
    /\ ReconcileCreate("ok")
    /\ \E st \in {"creating", "succeeded"} :
           ext' = [ext EXCEPT ![specs[idx].Name] = st]

\* CreateOrUpdate fails.
ReconcileCreateError ==
    /\ ReconcileCreate("error")
    /\ ext' = ext

\* The loop is over: return nil.
ReconcileReturn ==
    /\ svc \in ExtServices
    /\ pc = "get"
    /\ idx > Len(specs)
    /\ pc' = "idle"
    /\ result' = "nil"
    /\ UNCHANGED <<svc, specs, ext, ipName, ip, cond, idx, op, calls, condLog>>

\* Delete that removes the extensions of the spec list from the provider.
ExtDelete_DeletesExtensions ==
    /\ svc \in ExtServices
    /\ pc = "idle"
    /\ op' = "Delete"
    /\ calls' = [i \in 1..Len(specs) |-> Call("Delete", specs[i].Name, <<>>, "ok")]
    /\ ext' = [n \in ExtNames |-> IF \E i \in 1..Len(specs) : specs[i].Name = n
                                     THEN "absent" ELSE ext[n]]
    /\ condLog' = <<>>
    /\ result' = "nil"
    /\ UNCHANGED <<svc, specs, ipName, ip, cond, pc, idx>>

\* Delete of an extension service: a no-op.
ExtDelete ==
    /\ svc \in ExtServices
    /\ pc = "idle"
    /\ op' = "Delete"
    /\ calls' = <<>>
    /\ condLog' = <<>>
    /\ result' = "nil"
    /\ UNCHANGED <<svc, specs, ext, ipName, ip, cond, pc, idx>>

\* ------------------------------------------------------------ provider

\* The provider finishes provisioning extension n.
ProviderSucceeds ==
    \E n \in ExtNames :
        /\ svc \in ExtServices
        /\ ext[n] \in {"creating", "updating"}
        /\ ext' = [ext EXCEPT ![n] = "succeeded"]
        /\ UNCHANGED <<svc, specs, ipName, ip, cond, pc, idx, op, calls, condLog, result>>

\* The provider fails to provision extension n.
ProviderFails ==
    \E n \in ExtNames :
        /\ svc \in ExtServices
        /\ ext[n] \in {"creating", "updating"}
        /\ ext' = [ext EXCEPT ![n] = "failed"]
        /\ UNCHANGED <<svc, specs, ipName, ip, cond, pc, idx, op, calls, condLog, result>>

\* ----------------------------------------------------------- public IP

\* PIPReconcileResult treating not-found as success.
PIPReconcileResult_SwallowsNotFound(ans) ==
    IF ans \notin {"ok", "notfound"} THEN ErrCreatePublicIP ELSE "nil"

\* What publicips Reconcile returns on the provider's answer ans.
PIPReconcileResult(ans) == IF ans # "ok" THEN ErrCreatePublicIP ELSE "nil"

\* publicips Reconcile: one CreateOrUpdate, answered ans.
PIPReconcile ==
    \E ans \in {"ok", "notfound", "error"} :
        /\ svc = "publicips"
        /\ op' = "Reconcile"
        /\ calls' = <<Call("CreateOrUpdate", ipName, <<PublicIPAddress(ipName)>>, ans)>>
        /\ ip' = IF ans = "ok" THEN <<PublicIPAddress(ipName)>> ELSE ip
        /\ result' = PIPReconcileResult(ans)
        /\ condLog' = <<>>
        /\ UNCHANGED <<svc, specs, ext, ipName, cond, pc, idx>>

\* What the provider can answer to a delete of the public IP.
DeleteAnswers == IF ip = <<>> THEN {"notfound", "error"} ELSE {"ok", "error"}

\* PIPDeleteResult without the already-deleted case.
PIPDeleteResult_NotFoundIsError(ans) ==
    IF ans # "ok" THEN ErrDeletePublicIP ELSE "nil"

\* What Delete returns on the provider's answer ans.
PIPDeleteResult(ans) ==
    IF ans = "notfound" THEN "nil"
    ELSE IF ans # "ok" THEN ErrDeletePublicIP
    ELSE "nil"

\* publicips Delete: one provider delete, answered ans.
PIPDelete ==
    \E ans \in DeleteAnswers :
        /\ svc = "publicips"
        /\ op' = "Delete"
        /\ calls' = <<Call("Delete", ipName, <<>>, ans)>>
        /\ ip' = IF ans = "ok" THEN <<>> ELSE ip
        /\ result' = PIPDeleteResult(ans)
        /\ condLog' = <<>>
        /\ UNCHANGED <<svc, specs, ext, ipName, cond, pc, idx>>

\* ------------------------------------------------------- specifications

Next ==
    \/ ReconcileStart
    \/ ReconcileGetOK
    \/ ReconcileGetError
    \/ ReconcileCreateOK
    \/ ReconcileCreateError
    \/ ReconcileReturn
    \/ ExtDelete
    \/ ProviderSucceeds
    \/ ProviderFails
    \/ PIPReconcile
    \/ PIPDelete

Spec == Init /\ [][Next]_vars

\* Poll-until-converged: the controller keeps invoking Reconcile of an
\* extension service, every provider call goes through, and the provider
\* finishes the extensions it is provisioning.
LiveInit ==
    /\ Init
    /\ svc \in ExtServices
    /\ \A n \in ExtNames : ext[n] \in {"absent", "creating", "succeeded"}

LiveNext ==
    \/ ReconcileStart
    \/ ReconcileGetOK
    \/ ReconcileCreateOK
    \/ ReconcileReturn
    \/ ProviderSucceeds

LiveSpec ==
    /\ LiveInit
    /\ [][LiveNext]_vars
    /\ WF_vars(ReconcileStart)
    /\ WF_vars(ReconcileGetOK)
    /\ WF_vars(ReconcileCreateOK)
    /\ WF_vars(ReconcileReturn)
    /\ WF_vars(ProviderSucceeds)

\* ------------------------------------------------------------- claims

\* The last extension Reconcile pass has returned.
Done == svc \in ExtServices /\ op = "Reconcile" /\ pc = "idle"

\* The Gets of the pass that the provider answered a.
Gets(a) == {i \in 1..Len(calls) : calls[i].op = "Get" /\ calls[i].ans = a}

\* The CreateOrUpdate calls of the pass for extension n.
Creates(n) == {j \in 1..Len(calls) : calls[j].op = "CreateOrUpdate" /\ calls[j].name = n}

\* The mutating calls of the pass for extension n.
MutatingFor(n) == {j \in 1..Len(calls) : Mutating(calls[j]) /\ calls[j].name = n}

SpecNamed(n) == CHOOSE s \in Range(specs) : s.Name = n

\* The call carries the publisher, type (the spec's name) and version of the spec.
CarriesSpec(c) ==
    /\ Len(c.params) = 1
    /\ c.params[1].Publisher = SpecNamed(c.name).Publisher
    /\ c.params[1].Type = SpecNamed(c.name).Name
    /\ c.params[1].TypeHandlerVersion = SpecNamed(c.name).Version

\* An extension not found by Get is created once, from its spec.
CreatedOnce(n) ==
    /\ Cardinality(Creates(n)) = 1
    /\ \A j \in Creates(n) : CarriesSpec(calls[j])

C2_GetErrorIsFatal ==
    Done /\ Gets("error") # {} => IsError(result)

\* C3: in both extension reconcilers, a Get answered 'creating' ends the pass
\* with the 'still provisioning' error, and the pass holds no mutating call
\* for that extension.
C3_CreatingIsRetryable ==
    svc \in ExtServices =>
        \A i \in Gets("creating") :
            /\ i = Len(calls)
            /\ pc = "idle"
            /\ result = ErrStillProvisioning
            /\ MutatingFor(calls[i].name) = {}

C3_Witness ==
    /\ svc = "vmextensions"
    /\ Gets("creating") # {}
    /\ \E j \in 1..Len(calls) : Mutating(calls[j])
    /\ result = ErrStillProvisioning

\* C4 as stated: in both extension reconcilers, a Get answered 'failed' sets
\* the readiness condition to false with a failure reason and ends the pass
\* with a non-nil error.
C4_FailedSetsConditionBoth ==
    svc \in ExtServices =>
        \A i \in Gets("failed") :
            /\ pc = "idle"
            /\ IsError(result)
            /\ cond[1] = "false"
            /\ cond[2] = "BootstrapFailed"

\* C4 amended: a Get answered 'failed' ends the pass with the 'state failed'
\* error in both extension reconcilers; the scale-set reconciler sets the
\* readiness condition to false with the failure reason, the VM reconciler
\* sets no condition.
C4_FailedSetsConditionVMSS ==
    svc \in ExtServices =>
        \A i \in Gets("failed") :
            /\ i = Len(calls)
            /\ pc = "idle"
            /\ result = ErrStateFailed
            /\ IF svc = "vmssextensions"
                   THEN /\ cond = <<"false", "BootstrapFailed", "Error">>
                        /\ condLog # <<>>
                        /\ condLog[Len(condLog)] = cond
                   ELSE condLog = <<>> /\ cond = CondUnset

C4_Witness ==
    /\ svc = "vmssextensions"
    /\ Gets("failed") # {}
    /\ Gets("succeeded") # {}
    /\ cond[1] = "false"
    /\ result = ErrStateFailed

\* The step is a Get of an extension reconciler that the provider answers a.
Observes(a) ==
    /\ svc \in ExtServices
    /\ Len(calls') = Len(calls) + 1
    /\ calls'[Len(calls')].op = "Get"
    /\ calls'[Len(calls')].ans = a

\* The step issues no mutating call for the extension it observes and goes on
\* to the next spec.
Proceeds ==
    /\ pc' = "get"
    /\ idx' = idx + 1
    /\ result' = "running"
    /\ \A j \in 1..Len(calls') :
           Mutating(calls'[j]) => calls'[j].name # calls'[Len(calls')].name

\* C5 as stated: in both extension reconcilers, a Get answered 'succeeded'
\* sets the readiness condition to true, issues no mutating call for that
\* extension and goes on to the next spec.
C5_SucceededSetsConditionBoth ==
    [][Observes("succeeded") => Proceeds /\ cond' = <<"true", "", "">>]_vars

\* C5 amended: a Get answered 'succeeded' issues no mutating call for that
\* extension and goes on to the next spec in both extension reconcilers; the
\* scale-set reconciler sets the readiness condition to true, the VM
\* reconciler sets no condition.
C5_SucceededSetsConditionVMSS ==
    [][Observes("succeeded") =>
          (Proceeds /\ (IF svc = "vmssextensions"
                            THEN cond' = <<"true", "", "">> /\ condLog' = Append(condLog, cond')
                            ELSE cond' = cond /\ condLog' = condLog))]_vars

C5_Witness ==
    /\ svc = "vmssextensions"
    /\ pc = "get"
    /\ idx = 2
    /\ Gets("succeeded") = {1}
    /\ cond = <<"true", "", "">>

\* The last operation was a public IP operation op answered a by the provider.
PIPAnswered(o, a) ==
    /\ svc = "publicips"
    /\ op = o
    /\ Len(calls) = 1
    /\ calls[1].ans = a

\* C6: a public IP Delete that the provider answers with not-found (or that
\* removed the IP) returns nil and leaves the IP absent, so Delete after
\* Delete succeeds.
C6_DeleteIdempotent ==
    \A a \in {"ok", "notfound"} :
        PIPAnswered("Delete", a) => result = "nil" /\ ip = <<>>

C6_Witness ==
    /\ PIPAnswered("Delete", "notfound")
    /\ result = "nil"
    /\ ip = <<>>

\* C7: public IP Reconcile returns an error exactly when its CreateOrUpdate
\* failed (not-found included), public IP Delete exactly when the provider
\* delete failed with an error other than not-found; otherwise they return nil.
C7_NoErrorSwallowed ==
    svc = "publicips" /\ op # "none" =>
        /\ Len(calls) = 1
        /\ result \in {"nil", ErrCreatePublicIP, ErrDeletePublicIP}
        /\ op = "Reconcile" =>
               /\ calls[1].op = "CreateOrUpdate"
               /\ IsError(result) <=> calls[1].ans # "ok"
        /\ op = "Delete" =>
               /\ calls[1].op = "Delete"
               /\ IsError(result) <=> calls[1].ans \notin {"ok", "notfound"}

C7_Witness ==
    /\ PIPAnswered("Reconcile", "notfound")
    /\ result = ErrCreatePublicIP

\* Every not-found answer of the pass was followed by a mutating call for the
\* same resource.
NotFoundActedOn ==
    \A i \in 1..Len(calls) :
        calls[i].ans = "notfound" =>
            /\ i < Len(calls)
            /\ Mutating(calls[i + 1])
            /\ calls[i + 1].name = calls[i].name

ExtDeleteStep == svc \in ExtServices /\ op # "Delete" /\ op' = "Delete"

\* The step returns nil and leaves provider and condition alone.
NoOpStep ==
    /\ result' = "nil"
    /\ calls' = <<>>
    /\ condLog' = <<>>
    /\ ext' = ext
    /\ cond' = cond

\* C9: Delete of an extension service returns nil, issues no provider call
\* and sets no condition: the provider's state and the condition are as before.
C9_ExtDeleteNoOp ==
    [][ExtDeleteStep => NoOpStep]_vars

C9_Witness ==
    /\ svc \in ExtServices
    /\ op = "Delete"
    /\ result = "nil"
    /\ \E n \in ExtNames : ext[n] = "failed"
    /\ cond[1] = "false"

\* Every extension of the spec list is provisioned.
AllSucceeded == \A i \in 1..Len(specs) : ext[specs[i].Name] = "succeeded"

\* A pass has returned nil with every extension of the spec list provisioned.
Converged == Done /\ result = "nil" /\ AllSucceeded

\* A step taken with every extension provisioned issues no mutating call,
\* and a pass that returns in it returns nil.
QuietStep ==
    /\ Len(calls') > Len(calls) => ~Mutating(calls'[Len(calls')])
    /\ pc # "idle" /\ pc' = "idle" => result' = "nil"

\* No extension of the spec list is absent.
NoneAbsent == \A i \in 1..Len(specs) : ext[specs[i].Name] # "absent"

\* An absent extension stays absent.
AbsentStays == \A n \in ExtNames : ext[n] = "absent" => ext'[n] = "absent"

LowerCased(label, name) ==
    /\ Len(label) = Len(name)
    /\ \A i \in 1..Len(name) :
           /\ label[i] # "A"
           /\ name[i] = "A" => label[i] = "a"
           /\ name[i] # "A" => label[i] = name[i]

\* The last public IP Reconcile issued one CreateOrUpdate, and nothing else,
\* for the API-server IP: standard, static, IPv4, lower-cased DNS label; when
\* it went through the provider holds what was sent.
OneCreateOrUpdateSent ==
    svc = "publicips" /\ op = "Reconcile" =>
        /\ Len(calls) = 1
        /\ calls[1].op = "CreateOrUpdate"
        /\ calls[1].name = ipName
        /\ Len(calls[1].params) = 1
        /\ calls[1].params[1].Name = ipName
        /\ calls[1].params[1].Sku = "Standard"
        /\ calls[1].params[1].PublicIPAllocationMethod = "Static"
        /\ calls[1].params[1].PublicIPAddressVersion = "IPv4"
        /\ LowerCased(calls[1].params[1].DomainNameLabel, ipName)
        /\ calls[1].ans = "ok" => ip = calls[1].params

\* A public IP Reconcile right after a public IP Reconcile sends the same
\* parameters, and when both went through the provider's state is unchanged.
SecondPassSame ==
    svc = "publicips" /\ op = "Reconcile" /\ op' = "Reconcile" =>
        /\ calls'[1].params = calls[1].params
        /\ calls[1].ans = "ok" /\ calls'[1].ans = "ok" => ip' = ip

\* C11: every public IP Reconcile issues, without a read before it, exactly
\* one CreateOrUpdate for the API-server IP name with SKU standard, allocation
\* static, version IPv4 and the lower-cased name as DNS label; a second pass
\* sends the same parameters and leaves the provider's state as the first did.
C11_ReconcileSendsSame ==
    /\ []OneCreateOrUpdateSent
    /\ [][SecondPassSame]_vars

C11_Witness ==
    /\ PIPAnswered("Reconcile", "ok")
    /\ \E i \in 1..Len(ipName) : ipName[i] = "A"
    /\ Len(ipName) = 2
    /\ ip = calls[1].params
    /\ LowerCased(ip[1].DomainNameLabel, ipName)

\* What a pass makes of its inputs: the calls issued (operation, resource,
\* answer), the conditions set and the result returned.
Outcome(cs, cl, r) == [calls |-> cs, condLog |-> cl, result |-> r]

Shape(c) == <<c.op, c.name, c.ans>>

Answers == [k \in 1..Len(calls) |-> calls[k].ans]

\* The outcome of a VM extension pass over the specs sp from spec i on, as a
\* function of sp and of the provider's answers as from answer k on.
RECURSIVE VMPass(_, _, _, _, _)
VMPass(sp, as, i, k, cs) ==
    IF i > Len(sp) THEN Outcome(cs, <<>>, "nil")
    ELSE IF k > Len(as) THEN Outcome(cs, <<>>, "running")
    ELSE LET got == Append(cs, <<"Get", sp[i].Name, as[k]>>)
         IN  IF as[k] = "creating" THEN Outcome(got, <<>>, "extension still provisioning")
             ELSE IF as[k] = "failed" THEN Outcome(got, <<>>, "extension state failed")
             ELSE IF as[k] # "notfound" THEN VMPass(sp, as, i + 1, k + 1, got)
             ELSE IF k + 1 > Len(as) THEN Outcome(got, <<>>, "running")
             ELSE LET made == Append(got, <<"CreateOrUpdate", sp[i].Name, as[k + 1]>>)
                  IN  IF as[k + 1] = "ok"
                          THEN VMPass(sp, as, i + 1, k + 2, made)
                          ELSE Outcome(made, <<>>, "failed to create VM extension")

\* The outcome of a scale-set extension pass, likewise.
RECURSIVE VMSSPass(_, _, _, _, _, _)
VMSSPass(sp, as, i, k, cs, cl) ==
    IF i > Len(sp) THEN Outcome(cs, cl, "nil")
    ELSE IF k > Len(as) THEN Outcome(cs, cl, "running")
    ELSE LET got == Append(cs, <<"Get", sp[i].Name, as[k]>>)
         IN  IF as[k] = "succeeded"
                 THEN VMSSPass(sp, as, i + 1, k + 1, got, Append(cl, <<"true", "", "">>))
             ELSE IF as[k] = "creating"
                 THEN Outcome(got, Append(cl, <<"false", "BootstrapInProgress", "Info">>),
                              "extension still provisioning")
             ELSE IF as[k] = "failed"
                 THEN Outcome(got, Append(cl, <<"false", "BootstrapFailed", "Error">>),
                              "extension state failed")
             ELSE IF as[k] = "error"
                 THEN Outcome(got, cl, "failed to get vm extension")
             ELSE VMSSPass(sp, as, i + 1, k + 1, got, cl)

\* The outcome of a public IP operation o answered a.
PIPPass(o, a) ==
    IF o = "Reconcile"
        THEN Outcome(<<<<"CreateOrUpdate", ipName, a>>>>, <<>>,
                     IF a = "ok" THEN "nil" ELSE "cannot create public IP")
        ELSE Outcome(<<<<"Delete", ipName, a>>>>, <<>>,
                     IF a \in {"ok", "notfound"} THEN "nil" ELSE "failed to delete public IP")

\* What the last operation made.
Observed == Outcome([k \in 1..Len(calls) |-> Shape(calls[k])], condLog, result)

\* C12: whatever operations ran before, the calls issued, the conditions set
\* and the result returned by a finished Reconcile or Delete are the value of
\* a function of the service's specs (or IP name) and of the provider's
\* answers to that operation alone.
C12_OutcomeOfInputsOnly ==
    /\ op = "Delete" /\ svc \in ExtServices => Observed = Outcome(<<>>, <<>>, "nil")
    /\ Done /\ svc = "vmextensions" =>
           Observed = VMPass(specs, Answers, 1, 1, <<>>)
    /\ Done /\ svc = "vmssextensions" =>
           Observed = VMSSPass(specs, Answers, 1, 1, <<>>, <<>>)
    /\ op # "none" /\ svc = "publicips" =>
           Len(calls) = 1 /\ Observed = PIPPass(op, calls[1].ans)

\* A finished scale-set pass that made two calls and set two conditions.
C12_Witness ==
    /\ Done
    /\ svc = "vmssextensions"
    /\ cond = <<"false", "BootstrapInProgress", "Info">>
    /\ condLog = <<<<"true", "", "">>, <<"false", "BootstrapInProgress", "Info">>>>
    /\ Len(calls) = 2

\* The number of Gets among the first j calls of the pass: the position in
\* the spec list the pass had reached at call j.
GetsUpTo(j) == Cardinality({i \in 1..j : calls[i].op = "Get"})

\* The answer to call c makes the pass return an error.
ErrorYielding(c) ==
    \/ c.op = "Get" /\ c.ans \in {"creating", "failed"}
    \/ c.op = "CreateOrUpdate" /\ c.ans # "ok"
    \/ c.op = "Get" /\ c.ans = "error" /\ svc = "vmssextensions"

\* The conditions of the pass were set by its Gets answered with one of the
\* three states the switch names, one each.
ConditionPerGet ==
    Len(condLog) =
        IF svc = "vmssextensions"
            THEN Cardinality(Gets("succeeded") \cup Gets("creating") \cup Gets("failed"))
            ELSE 0

\* C13: an extension Reconcile pass takes the specs in list order, every
\* call being for the spec the pass has reached, and the first call whose
\* answer yields an error return is the last of the pass: the pass has
\* returned that error, and no Get, CreateOrUpdate or condition update was
\* made for a later spec.
C13_InOrderStopsAtFirstError ==
    svc \in ExtServices /\ op = "Reconcile" =>
        /\ GetsUpTo(Len(calls)) <= Len(specs)
        /\ \A j \in 1..Len(calls) :
               /\ GetsUpTo(j) >= 1
               /\ calls[j].name = specs[GetsUpTo(j)].Name
               /\ ErrorYielding(calls[j]) =>
                      /\ j = Len(calls)
                      /\ pc = "idle"
                      /\ IsError(result)
                      /\ \A i \in (GetsUpTo(j) + 1)..Len(specs) :
                             \A k \in 1..Len(calls) : calls[k].name # specs[i].Name
        /\ ConditionPerGet

\* A VM pass stopped at a creating extension and left the absent one listed
\* after it alone.
C13_Witness ==
    /\ Done
    /\ svc = "vmextensions"
    /\ Len(specs) = 2
    /\ Len(calls) = 1
    /\ calls[1].ans = "creating"
    /\ calls[1].name = specs[1].Name
    /\ ext[specs[2].Name] = "absent"
    /\ IsError(result)

\* The calls of an extension pass mutate the provider in one way only: none
\* is a delete, the scale-set reconciler issues no mutating call, and a
\* CreateOrUpdate of the VM reconciler comes right after the not-found Get
\* of the same extension, at most once for it.
OnlyCreateAfterNotFound ==
    svc \in ExtServices =>
        \A j \in 1..Len(calls) :
            /\ calls[j].op # "Delete"
            /\ svc = "vmssextensions" => ~Mutating(calls[j])
            /\ calls[j].op = "CreateOrUpdate" =>
                   /\ j > 1
                   /\ calls[j - 1].op = "Get"
                   /\ calls[j - 1].ans = "notfound"
                   /\ calls[j - 1].name = calls[j].name
                   /\ Cardinality(Creates(calls[j].name)) = 1

\* A failed extension is failed after the step.
FailedStays ==
    svc \in ExtServices =>
        \A n \in ExtNames : ext[n] = "failed" => ext'[n] = "failed"

C15_LastConditionWins ==
    Done /\ svc = "vmssextensions" =>
        /\ condLog # <<>> => cond = condLog[Len(condLog)]
        /\ result \in {ErrStillProvisioning, ErrStateFailed} =>
               /\ condLog # <<>>
               /\ cond[1] = "false"
        /\ result = "nil" => \A k \in 1..Len(condLog) : condLog[k][1] # "false"

\* The pass set the condition true for the first spec and false for the second.
C15_Witness ==
    /\ Done
    /\ svc = "vmssextensions"
    /\ result = ErrStillProvisioning
    /\ Len(condLog) = 2
    /\ condLog[1][1] = "true"
    /\ cond[1] = "false"

\* C16: a Get answered with a provisioning state that is none of creating,
\* succeeded and failed is a no-op in both extension reconcilers: no mutating
\* call, no condition set, no error, and the pass goes on to the next spec.
C16_UnnamedStateNoOp ==
    [][\A a \in ExtStates \ {"absent", "creating", "succeeded", "failed"} :
          Observes(a) => (Proceeds /\ cond' = cond /\ condLog' = condLog)]_vars

C16_Witness ==
    /\ svc \in ExtServices
    /\ pc = "get"
    /\ idx = 2
    /\ Len(calls) = 1
    /\ calls[1].ans = "updating"
    /\ result = "running"

====
